---- MODULE Spec2Model ----
(***************************************************************************)
(* Model of src/search.py: the Knuth-Morris-Pratt search engine            *)
(* (KMPAlgorithm) and the span computation of _ResultPrinter.              *)
(*                                                                         *)
(* Python values are records tagged with their type.  A str is a sequence  *)
(* of one-character strings (code points); indices in the model are the    *)
(* 0-based Python indices, translated to TLA+ positions by At.             *)
(***************************************************************************)
EXTENDS Integers, Sequences, FiniteSets, TLC

\* ------------------------------------------------------------------ bounds
MaxTextLen == 6
MaxPatLen == 4
MaxCount == 2
MaxFoldTextLen == 3
MaxFoldPatLen == 2
MaxPatterns == 2
MaxArgCount == 1

\* ------------------------------------------------------- Python values
PyNone == [type |-> "NoneType"]
PyUnset == [type |-> "unset"]
PyStr(s) == [type |-> "str", val |-> s]
PyInt(n) == [type |-> "int", val |-> n]
PyBool(b) == [type |-> "bool", val |-> b]
PyFloat(n) == [type |-> "float", val |-> n]
PyList(s) == [type |-> "list", val |-> s]
PyTuple(s) == [type |-> "tuple", val |-> s]
PySet(s) == [type |-> "set", val |-> s]
PyDict(f) == [type |-> "dict", val |-> f]

\* isinstance(v, t); bool is a subclass of int
IsInstance(v, t) ==
    \/ v.type = t
    \/ t = "int" /\ v.type = "bool"

\* the integer value of an int or a bool (True == 1, False == 0)
IntOf(v) ==
    IF v.type = "bool" THEN (IF v.val THEN 1 ELSE 0) ELSE v.val

\* n == v for an int n and an arbitrary value v (1 == None is False)
PyEqInt(n, v) ==
    /\ IsInstance(v, "int")
    /\ IntOf(v) = n

\* ------------------------------------------------------------- strings
Range(s) == {s[k] : k \in DOMAIN s}

Strs(chars, lo, hi) == UNION {[1..n -> chars] : n \in lo..hi}

\* s[k] with Python's index rules: negative k counts from the end
InRange(s, k) == k >= 0 - Len(s) /\ k < Len(s)

At(s, k) == IF k >= 0 THEN s[k + 1] ELSE s[Len(s) + k + 1]

\* str.lower() on one code point: U+0130 lower-cases to two code points
LowerChar(c) ==
    CASE c = "A" -> <<"a">>
      [] c = "B" -> <<"b">>
      [] c = "Idot" -> <<"i", "dot">>
      [] OTHER -> <<c>>

RECURSIVE Lower(_)
Lower(s) ==
    IF s = <<>> THEN <<>> ELSE LowerChar(Head(s)) \o Lower(Tail(s))

\* ------------------------------------------------------------ variables
VARIABLES
    string, sub_string, case_sensitivity, method, count,
    self_string, self_sub_string, self_method, self_count,
    pc, error, result, idx, scan, ret, spans, pi_calls, scan_calls

args == <<string, sub_string, case_sensitivity, method, count>>
self == <<self_string, self_sub_string, self_method, self_count>>
vars == <<args, self, pc, error, result, idx, scan, ret, spans,
          pi_calls, scan_calls>>

EmptyDict == [k \in {} |-> PyNone]

NoScan == [sub_string |-> <<>>, pi_list |-> <<>>, i |-> 0, j |-> 0,
           result |-> <<>>, result_counter |-> 0,
           stopped |-> FALSE, error |-> ""]

\* ------------------------------------------------------------ _validate
\* the count check with its lower limit off by one: 0 is let through
ValidateCountFromZero(c) ==
    IF c = PyNone THEN ""
    ELSE IF ~IsInstance(c, "int") THEN "TypeError"
    ELSE IF IntOf(c) < 0 THEN "ValueError"
    ELSE ""

\* the check of count: "if not count is None: ..."
ValidateCount(c) ==
    IF c = PyNone THEN ""
    ELSE IF ~IsInstance(c, "int") THEN "TypeError"
    ELSE IF IntOf(c) < 1 THEN "ValueError"
    ELSE ""

\* the exception _validate raises, "" when it returns normally
Validate(s, sub, cs, m, c) ==
    IF ~IsInstance(s, "str") THEN "TypeError"
    ELSE IF /\ ~IsInstance(sub, "str")
            /\ ~(IsInstance(sub, "list") \/ IsInstance(sub, "tuple"))
        THEN "TypeError"
    ELSE IF /\ ~IsInstance(sub, "str")
            /\ \E k \in DOMAIN sub.val : ~IsInstance(sub.val[k], "str")
        THEN "TypeError"
    ELSE IF ~IsInstance(cs, "bool") THEN "TypeError"
    ELSE IF ~IsInstance(m, "str") THEN "TypeError"
    ELSE IF m.val \notin {"first", "last"} THEN "ValueError"
    ELSE ValidateCount(c)

\* ------------------------------------------------------------- __init__
\* self._sub_string after the promotion of a single str and the lower-casing
NormSubString(sub, cs) ==
    LET lst == IF IsInstance(sub, "str") THEN <<sub.val>>
               ELSE [k \in DOMAIN sub.val |-> sub.val[k].val]
    IN IF cs.val THEN lst ELSE [k \in DOMAIN lst |-> Lower(lst[k])]

NormString(s, cs) == IF cs.val THEN s.val ELSE Lower(s.val)

\* --------------------------------------------------------- _get_pi_list
RECURSIVE PiLoop(_, _, _, _)
PiLoop(sub, pi_list, i, j) ==
    IF ~(i < Len(sub)) THEN pi_list
    ELSE IF At(sub, i) = At(sub, j)
        THEN PiLoop(sub, [pi_list EXCEPT ![i + 1] = j + 1], i + 1, j + 1)
    ELSE IF j # 0
        THEN PiLoop(sub, pi_list, i, At(pi_list, j - 1))
    ELSE PiLoop(sub, [pi_list EXCEPT ![i + 1] = 0], i + 1, j)

\* the table built with i starting at 0 instead of 1
GetPiListFromZero(sub) == PiLoop(sub, [k \in 1..Len(sub) |-> 0], 0, 0)

GetPiList(sub) == PiLoop(sub, [k \in 1..Len(sub) |-> 0], 1, 0)

\* ------------------------------------------- _search_first / _search_last
StartScan(sub) ==
    [sub_string |-> sub, pi_list |-> GetPiList(sub), i |-> 0, j |-> 0,
     result |-> <<>>, result_counter |-> 0, stopped |-> FALSE, error |-> ""]

\* the while condition of both scans (and no break, no exception so far)
ScanGuard(st, text) ==
    /\ ~st.stopped
    /\ st.error = ""
    /\ (Len(text) - st.i) >= (Len(st.sub_string) - st.j)

\* the indices compared with cursors (i, j) and the start offset recorded
\* for a match that ends with cursors (i, j): _search_first reads both
\* strings left to right, _search_last from their right ends
Pidx(m, sub, j) == IF m = "first" THEN j ELSE Len(sub) - 1 - j

Tidx(m, text, i) == IF m = "first" THEN i ELSE Len(text) - 1 - i

MatchOffset(m, text, i, j) == IF m = "first" THEN i - j ELSE Len(text) - i

\* one iteration of the while loop of _search_first (m = "first") or of
\* _search_last (m = "last")
ScanIteration(m, st, text, cnt) ==
    LET sub == st.sub_string
        pi_list == st.pi_list
    IN IF \/ ~InRange(sub, Pidx(m, sub, st.j))
          \/ ~InRange(text, Tidx(m, text, st.i))
       THEN [st EXCEPT !.error = "IndexError"]
       ELSE
       LET hit == At(sub, Pidx(m, sub, st.j)) = At(text, Tidx(m, text, st.i))
           j1 == IF hit THEN st.j + 1 ELSE st.j
           i1 == IF hit THEN st.i + 1 ELSE st.i
       IN IF j1 = Len(sub)
          THEN LET res == Append(st.result, MatchOffset(m, text, i1, j1))
                   ctr == st.result_counter + 1
               IN IF PyEqInt(ctr, cnt)
                  THEN [st EXCEPT !.i = i1, !.j = j1, !.result = res,
                                  !.result_counter = ctr, !.stopped = TRUE]
                  ELSE [st EXCEPT !.i = i1, !.j = At(pi_list, j1 - 1),
                                  !.result = res, !.result_counter = ctr]
          ELSE IF /\ i1 < Len(text)
                  /\ At(sub, Pidx(m, sub, j1)) # At(text, Tidx(m, text, i1))
          THEN IF j1 # 0
               THEN [st EXCEPT !.i = i1, !.j = At(pi_list, j1 - 1)]
               ELSE [st EXCEPT !.i = i1 + 1, !.j = j1]
          ELSE [st EXCEPT !.i = i1, !.j = j1]

\* the forward iteration restarting the pattern at 0 after a match
FirstStepRestart(st, text, cnt) ==
    LET nxt == ScanIteration("first", st, text, cnt)
    IN IF Len(nxt.result) > Len(st.result) /\ ~nxt.stopped
       THEN [nxt EXCEPT !.j = 0]
       ELSE nxt

\* the forward iteration without the test of the counter against count
FirstStepNoBreak(st, text, cnt) == ScanIteration("first", st, text, PyNone)

FirstStep(st, text, cnt) == ScanIteration("first", st, text, cnt)

LastStep(st, text, cnt) == ScanIteration("last", st, text, cnt)

ScanStepOf(m, st, text, cnt) ==
    IF m = "first" THEN FirstStep(st, text, cnt) ELSE LastStep(st, text, cnt)

\* tuple(result) if result else None
ScanValue(st) == IF st.result # <<>> THEN PyTuple(st.result) ELSE PyNone

\* a whole scan, as the loop runs it
RECURSIVE RunScan(_, _, _, _)
RunScan(m, st, text, cnt) ==
    IF ScanGuard(st, text) THEN RunScan(m, ScanStepOf(m, st, text, cnt), text, cnt)
    ELSE st

SearchFirst(text, sub, cnt) == RunScan("first", StartScan(sub), text, cnt)

SearchLast(text, sub, cnt) == RunScan("last", StartScan(sub), text, cnt)

\* ------------------------------------------------------ _convert_result
Truthy(v) == v # PyNone /\ v.val # <<>>

ConvertResult(res) ==
    IF Cardinality(DOMAIN res) = 0 THEN PyNone
    ELSE IF Cardinality(DOMAIN res) = 1
        THEN LET r == res[CHOOSE k \in DOMAIN res : TRUE]
             IN IF ~Truthy(r) THEN PyNone ELSE r
    ELSE IF \A k \in DOMAIN res : res[k] = PyNone THEN PyNone
    ELSE PyDict(res)

\* -------------------------------------------------------- _ResultPrinter
\* self._sub_string of the printer: a single str is promoted to a list
PrinterSubString(sub) == IF IsInstance(sub, "str") THEN <<sub>> ELSE sub.val

\* the (start_index, end_index) pairs _print_tuple marks
PrintTuple(res, psub) ==
    {[start |-> res.val[k], end |-> res.val[k] + Len(psub) - 1] :
        k \in DOMAIN res.val}

\* the (start_index, end_index) pairs _print_dict marks, per key
PrintDict(res) ==
    UNION {IF Truthy(res.val[key])
           THEN {[sub_string |-> key, start |-> res.val[key].val[k],
                  end |-> res.val[key].val[k] + Len(key) - 1] :
                     k \in DOMAIN res.val[key].val}
           ELSE {} : key \in DOMAIN res.val}

PrintSpans(res, sub) ==
    IF res.type = "tuple" THEN PrintTuple(res, PrinterSubString(sub))
    ELSE IF res.type = "dict" THEN PrintDict(res)
    ELSE {}

\* ---------------------------------------------------------------- inputs
ScanChars == {"a", "b"}
FoldChars == {"A", "a", "Idot"}

Counts(hi) == {PyNone} \cup {PyInt(k) : k \in 1..hi}
Methods == {PyStr("first"), PyStr("last")}

StrValues(chars, lo, hi) == {PyStr(s) : s \in Strs(chars, lo, hi)}

ListValues(elems, hi) ==
    UNION {{PyList(l) : l \in [1..n -> elems]} : n \in 0..hi}

ArgStrings ==
    StrValues({"a"}, 0, MaxArgCount + 1)
        \cup {PyInt(0), PyNone, PyList(<<PyStr(<<"a">>)>>)}

ArgSubStrings ==
    {PyStr(<<"a">>), PyList(<<>>), PyList(<<PyStr(<<"a">>)>>),
     PyList(<<PyStr(<<"a">>), PyInt(1)>>),
     PyTuple(<<PyStr(<<"a">>), PyStr(<<"a", "a">>)>>),
     PyTuple(<<PyNone>>), PySet({PyStr(<<"a">>)}), PyInt(1), PyNone}

ArgCaseSensitivities ==
    {PyBool(TRUE), PyBool(FALSE), PyInt(1), PyNone, PyStr(<<"a">>)}

ArgMethods ==
    Methods \cup {PyStr("middle"), PyStr("First"), PyInt(1), PyNone}

ArgCounts ==
    {PyNone, PyBool(TRUE), PyBool(FALSE), PyFloat(1), PyStr(<<"1">>)}
        \cup {PyInt(k) : k \in -1..MaxArgCount}

\* ------------------------------------------------------------------ Init
InitRest ==
    /\ self_string = <<>>
    /\ self_sub_string = <<>>
    /\ self_method = ""
    /\ self_count = PyNone
    /\ pc = "call"
    /\ error = ""
    /\ result = EmptyDict
    /\ idx = 0
    /\ scan = NoScan
    /\ ret = PyUnset
    /\ spans = {}
    /\ pi_calls = 0
    /\ scan_calls = 0

\* case-sensitive searches for one pattern, both methods, with and without cap
Init ==
    /\ string \in StrValues(ScanChars, 0, MaxTextLen)
    /\ sub_string \in StrValues(ScanChars, 0, MaxPatLen)
    /\ case_sensitivity = PyBool(TRUE)
    /\ method \in Methods
    /\ count \in Counts(MaxCount)
    /\ InitRest

\* one pattern or a list of patterns, mixed case, both case modes
InitFold ==
    /\ string \in StrValues(FoldChars, 0, MaxFoldTextLen)
    /\ sub_string \in StrValues(FoldChars, 1, MaxFoldPatLen)
           \cup ListValues(StrValues(FoldChars, 1, MaxFoldPatLen), MaxPatterns)
    /\ case_sensitivity \in {PyBool(TRUE), PyBool(FALSE)}
    /\ method \in Methods
    /\ count = PyNone
    /\ InitRest

\* arguments of every type, valid and invalid
InitArgs ==
    /\ string \in ArgStrings
    /\ sub_string \in ArgSubStrings
    /\ case_sensitivity \in ArgCaseSensitivities
    /\ method \in ArgMethods
    /\ count \in ArgCounts
    /\ InitRest

\* --------------------------------------------------------------- actions
\* KMPAlgorithm.__init__: validation, then promotion and lower-casing
Construct ==
    /\ pc = "call"
    /\ LET e == Validate(string, sub_string, case_sensitivity, method, count)
       IN IF e # ""
          THEN /\ pc' = "ValidationError"
               /\ error' = e
               /\ UNCHANGED self
          ELSE /\ self_string' = NormString(string, case_sensitivity)
               /\ self_sub_string' = NormSubString(sub_string, case_sensitivity)
               /\ self_method' = method.val
               /\ self_count' = count
               /\ pc' = "constructed"
               /\ error' = ""
    /\ UNCHANGED <<args, result, idx, scan, ret, spans, pi_calls, scan_calls>>

\* search(): result = {}.fromkeys(self._sub_string)
SearchStart ==
    /\ pc = "constructed"
    /\ result' = [k \in Range(self_sub_string) |-> PyNone]
    /\ idx' = 1
    /\ pc' = "loop"
    /\ UNCHANGED <<args, self, error, scan, ret, spans, pi_calls, scan_calls>>

\* the for loop calls _search_first/_search_last, which builds the table
BeginScan ==
    /\ pc = "loop"
    /\ idx <= Len(self_sub_string)
    /\ scan' = StartScan(self_sub_string[idx])
    /\ pi_calls' = pi_calls + 1
    /\ scan_calls' = scan_calls + 1
    /\ pc' = "scan"
    /\ UNCHANGED <<args, self, error, result, idx, ret, spans>>

\* one iteration of the while loop of the running scan
ScanStep ==
    /\ pc = "scan"
    /\ ScanGuard(scan, self_string)
    /\ scan' = ScanStepOf(self_method, scan, self_string, self_count)
    /\ error' = scan'.error
    /\ pc' = IF scan'.error # "" THEN "ScanError" ELSE "scan"
    /\ UNCHANGED <<args, self, result, idx, ret, spans, pi_calls, scan_calls>>

\* the scan returns and search() stores result[sub_str]
ScanReturn ==
    /\ pc = "scan"
    /\ ~ScanGuard(scan, self_string)
    /\ result' = [result EXCEPT ![scan.sub_string] = ScanValue(scan)]
    /\ idx' = idx + 1
    /\ pc' = "loop"
    /\ UNCHANGED <<args, self, error, scan, ret, spans, pi_calls, scan_calls>>

\* search(): result = self._convert_result(result); return result
Convert ==
    /\ pc = "loop"
    /\ idx > Len(self_sub_string)
    /\ ret' = ConvertResult(result)
    /\ pc' = "returned"
    /\ UNCHANGED <<args, self, error, result, idx, scan, spans, pi_calls,
                   scan_calls>>

\* __main__: _ResultPrinter(result, args.string, args.sub_string).print()
PrintResult ==
    /\ pc = "returned"
    /\ spans' = PrintSpans(ret, sub_string)
    /\ IF \E s \in spans' : ~InRange(string.val, s.end)
       THEN pc' = "PrintError" /\ error' = "IndexError"
       ELSE pc' = "printed" /\ error' = error
    /\ UNCHANGED <<args, self, result, idx, scan, ret, pi_calls, scan_calls>>

Next ==
    \/ Construct
    \/ SearchStart
    \/ BeginScan
    \/ ScanStep
    \/ ScanReturn
    \/ Convert
    \/ PrintResult

Spec == Init /\ [][Next]_vars

SpecFold == InitFold /\ [][Next]_vars

SpecArgs == InitArgs /\ [][Next]_vars

\* ------------------------------------------------- reference definitions
\* the start offsets at which sub occurs in text
Occ(text, sub) ==
    {o \in 0..(Len(text) - Len(sub)) :
        SubSeq(text, o + 1, o + Len(sub)) = sub}

Ascending(r) == \A a, b \in DOMAIN r : a < b => r[a] < r[b]

Descending(r) == \A a, b \in DOMAIN r : a < b => r[a] > r[b]

\* the n smallest / n largest elements of a set of integers
Smallest(S, n) == {o \in S : Cardinality({q \in S : q < o}) < n}

Largest(S, n) == {o \in S : Cardinality({q \in S : q > o}) < n}

Rev(s) == [k \in 1..Len(s) |-> s[Len(s) + 1 - k]]

\* the offsets held by an Optional[tuple]
Offsets(v) == IF v = PyNone THEN {} ELSE Range(v.val)

\* length of the longest proper prefix of s that is also a suffix of s
Border(s) ==
    CHOOSE m \in 0..(Len(s) - 1) :
        /\ SubSeq(s, 1, m) = SubSeq(s, Len(s) - m + 1, Len(s))
        /\ \A n \in (m + 1)..(Len(s) - 1) :
               SubSeq(s, 1, n) # SubSeq(s, Len(s) - n + 1, Len(s))

\* the scan of pattern number k has returned and its result is stored
Stored(k) ==
    /\ pc \in {"loop", "scan", "ScanError", "returned", "printed", "PrintError"}
    /\ k < idx

Capped == self_count # PyNone

ExamplePattern == <<"a", "a", "b", "a", "a", "b", "a", "a", "a">>
ExampleTable == <<0, 1, 0, 1, 2, 3, 4, 5, 2>>

\* ----------------------------------------------------------------- claims

\* C1: without a cap the forward scan of a non-empty pattern returns exactly
\* the offsets where the pattern occurs in the text, overlapping ones
\* included, each once and in strictly ascending order, and None exactly
\* when the pattern does not occur.
C1_ForwardExact ==
    \A k \in DOMAIN self_sub_string :
        (/\ Stored(k)
         /\ self_method = "first"
         /\ ~Capped
         /\ Len(self_sub_string[k]) >= 1)
        => LET v == result[self_sub_string[k]]
               occ == Occ(self_string, self_sub_string[k])
           IN IF occ = {} THEN v = PyNone
              ELSE /\ v.type = "tuple"
                   /\ Ascending(v.val)
                   /\ Range(v.val) = occ

\* a forward scan without cap has returned two overlapping occurrences
C1_Witness ==
    /\ pc = "returned"
    /\ self_method = "first"
    /\ ~Capped
    /\ ret.type = "tuple"
    /\ Len(ret.val) >= 2
    /\ ret.val[2] < ret.val[1] + Len(self_sub_string[1])

\* C2: with cap k the backward scan of a non-empty pattern returns exactly
\* the k largest offsets where the pattern occurs (all when fewer exist), in
\* strictly descending order, and no offset where it does not occur.
C2_BackwardCap ==
    \A k \in DOMAIN self_sub_string :
        (/\ Stored(k)
         /\ self_method = "last"
         /\ Capped
         /\ Len(self_sub_string[k]) >= 1)
        => LET v == result[self_sub_string[k]]
               occ == Occ(self_string, self_sub_string[k])
           IN IF occ = {} THEN v = PyNone
              ELSE /\ v.type = "tuple"
                   /\ Descending(v.val)
                   /\ Range(v.val) = Largest(occ, IntOf(self_count))

C4_ForwardCap ==
    /\ \A k \in DOMAIN self_sub_string :
        (/\ Stored(k)
         /\ self_method = "first"
         /\ Capped
         /\ Len(self_sub_string[k]) >= 1)
        => LET v == result[self_sub_string[k]]
               occ == Occ(self_string, self_sub_string[k])
           IN IF occ = {} THEN v = PyNone
              ELSE /\ v.type = "tuple"
                   /\ Ascending(v.val)
                   /\ Len(v.val) <= IntOf(self_count)
                   /\ Range(v.val) = Smallest(occ, IntOf(self_count))
    /\ (/\ pc = "scan"
        /\ self_method = "first"
        /\ Capped
        /\ Len(scan.result) >= IntOf(self_count))
        => /\ scan.stopped
           /\ Len(scan.result) = IntOf(self_count)
           /\ scan.i = scan.result[Len(scan.result)] + Len(scan.sub_string)

\* a capped forward scan has stopped at its k-th match before the end of a
\* text that holds a further occurrence
C4_Witness ==
    /\ pc = "scan"
    /\ self_method = "first"
    /\ Capped
    /\ scan.stopped
    /\ scan.i < Len(self_string)
    /\ Cardinality(Occ(self_string, scan.sub_string)) > IntOf(self_count)

\* C5: the shape of the result depends only on the number of patterns
\* supplied and on whether all match sets are empty: a mapping with an entry
\* for every supplied pattern when two or more are supplied and one has
\* matches, the bare offset tuple when one is supplied and has matches, and
\* None when no pattern is supplied or none has matches.
C5_Shape ==
    pc = "returned"
    => LET n == Len(self_sub_string)
           some == \E key \in DOMAIN result : result[key] # PyNone
       IN /\ (n >= 2 /\ some)
                => /\ ret.type = "dict"
                   /\ \A k \in 1..n : self_sub_string[k] \in DOMAIN ret.val
          /\ (n = 1 /\ some) => ret.type = "tuple"
          /\ (n = 0 \/ ~some) => ret = PyNone

\* C6: a call whose arguments pass validation raises nothing while scanning
\* or shaping the result and runs to its return.
C6_NoErrorAfterValidation ==
    Validate(string, sub_string, case_sensitivity, method, count) = ""
    => /\ pc # "ScanError"
       /\ pc \in {"scan", "loop"} => error = ""

\* the arguments the claim calls invalid, by their types and values
InvalidArgs ==
    \/ string.type # "str"
    \/ ~(\/ sub_string.type = "str"
         \/ /\ sub_string.type \in {"list", "tuple"}
            /\ \A k \in DOMAIN sub_string.val : sub_string.val[k].type = "str")
    \/ case_sensitivity.type # "bool"
    \/ ~(method.type = "str" /\ method.val \in {"first", "last"})
    \/ /\ count # PyNone
       /\ ~(count.type \in {"int", "bool"} /\ IntOf(count) >= 1)

\* C7: a call with a non-str text, with patterns that are neither a str nor
\* a list or tuple of str only, with a non-bool case flag, with a method other
\* than 'first' and 'last', or with a count that is present and not an integer
\* >= 1 (bool counts as int, as isinstance has it) raises TypeError or
\* ValueError at entry: no table is built, no pattern scanned, nothing
\* returned or printed.
C7_EagerValidation ==
    (InvalidArgs /\ pc # "call")
    => /\ pc = "ValidationError"
       /\ error \in {"TypeError", "ValueError"}
       /\ pi_calls = 0
       /\ scan_calls = 0
       /\ result = EmptyDict
       /\ ret = PyUnset
       /\ spans = {}

\* a call with count = 0 and otherwise valid arguments has raised
C7_Witness ==
    /\ pc = "ValidationError"
    /\ error = "ValueError"
    /\ count = PyInt(0)
    /\ Validate(string, sub_string, case_sensitivity, method, PyNone) = ""

\* C8: the table built for a non-empty pattern has the pattern's length and
\* entry k is the length of the longest proper prefix of P[0..k] that is also
\* a suffix of it; 'aabaabaaa' gives [0,1,0,1,2,3,4,5,2].
C8_PrefixTable ==
    /\ (pi_calls > 0 /\ Len(scan.sub_string) >= 1)
        => /\ Len(scan.pi_list) = Len(scan.sub_string)
           /\ \A k \in 0..(Len(scan.sub_string) - 1) :
                  /\ scan.pi_list[k + 1] = Border(SubSeq(scan.sub_string, 1, k + 1))
                  /\ scan.pi_list[k + 1] <= k
    /\ pi_calls > 0 => GetPiList(ExamplePattern) = ExampleTable

\* a scan runs with a table that holds an entry of 2
C8_Witness ==
    /\ pc = "scan"
    /\ Len(scan.sub_string) >= 3
    /\ \E k \in DOMAIN scan.pi_list : scan.pi_list[k] = 2

\* C9: for one pattern P and text T as the caller passed them, forward
\* without cap: with case sensitivity off the offsets returned are exactly
\* those o with lower(T[o:o+len(P)]) = lower(P), with case sensitivity on
\* exactly those with T[o:o+len(P)] = P.
C9_CaseFolding ==
    (/\ pc = "returned"
     /\ sub_string.type = "str"
     /\ self_method = "first"
     /\ ~Capped)
    => LET T == string.val
           P == sub_string.val
       IN Offsets(ret)
              = IF case_sensitivity.val
                THEN Occ(T, P)
                ELSE {o \in 0..(Len(T) - Len(P)) :
                         Lower(SubSeq(T, o + 1, o + Len(P))) = Lower(P)}

\* C10: every span the printer marks for a match at offset start of a
\* pattern ends at start + len(pattern) - 1, for the tuple result and for
\* the mapping result.
C10_SpanEnd ==
    pc \in {"printed", "PrintError"}
    => \A s \in spans :
          IF ret.type = "tuple"
          THEN \A key \in DOMAIN result : s.end = s.start + Len(key) - 1
          ELSE s.end = s.start + Len(s.sub_string) - 1

====
